---- MODULE Spec2Model ----
(***************************************************************************)
(* Model of the audio transcription service: the POST /transcribe handler  *)
(* (routers.py transcribe), which runs on the single asyncio event loop of *)
(* the uvicorn server started by main.py, the multiprocessing.Pool created *)
(* by lifespan.py, and the pipeline task transcribe_audio that the pool's  *)
(* worker processes execute against the shared temp directory.             *)
(***************************************************************************)
EXTENDS Integers, Sequences, FiniteSets, TLC

\* ---------------------------------------------------------------- bounds
NumReqs == 2

Reqs == 1..NumReqs

\* ----------------------------------------------------- program constants
\* settings.background_workers
PoolSize == 4
\* settings.max_file_size_mb
max_file_size_mb == 100
\* settings.supported_formats
supported_formats == {"wav", "mp3", "m4a", "flac", "ogg"}
\* settings.debug
debug == FALSE

Workers == 1..PoolSize

\* ------------------------------------------------------------ the inputs
\* file.filename of the upload; "" is an upload without a filename
FileNames == {"", "a.WAV", "notes.txt"}

\* Path(file.filename).suffix.lower().lstrip('.')
FileExtension(filename) ==
    CASE filename = "a.WAV"     -> "wav"
      [] filename = "notes.txt" -> "txt"
      [] OTHER                  -> ""

max_size_bytes == max_file_size_mb * 1024 * 1024

\* len(content) of the uploads that are tried
ContentSizes == {0, 1024, max_size_bytes, max_size_bytes + 1}

\* len(audio) in milliseconds and audio.frame_rate of the decodable
\* payloads that are tried
AudioLengthMs(size) == IF size = 1024 THEN 2500 ELSE 5000
AudioFrameRate(size) == IF size = 1024 THEN 44100 ELSE 16000

\* what file.read() returns: the byte length and whether pydub can decode
\* the bytes; an empty payload is never decodable.  The payloads tried are
\* an empty one, a small audio file, a maximal payload that is no audio and
\* two oversized ones.
Contents ==
    {[size |-> n, decodable |-> d, read |-> TRUE] :
        n \in ContentSizes, d \in BOOLEAN} \
    {[size |-> 0, decodable |-> TRUE, read |-> TRUE],
     [size |-> 1024, decodable |-> FALSE, read |-> TRUE],
     [size |-> max_size_bytes, decodable |-> TRUE, read |-> TRUE]}

\* JSON values, tagged with their JSON type
JStr(x) == [t |-> "str", s |-> x, n |-> 0, b |-> FALSE]
JInt(x) == [t |-> "int", s |-> "", n |-> x, b |-> FALSE]
JBool(x) == [t |-> "bool", s |-> "", n |-> 0, b |-> x]
JNull == [t |-> "null", s |-> "", n |-> 0, b |-> FALSE]

EmptyObject == [k \in {} |-> JNull]

\* what json.loads makes of a string: a JSONDecodeError ("invalid"), a
\* value that is not an object ("array"), or a dict ("object")
JsonText(kind, members) == [json |-> kind, members |-> members]

\* the config form field, each string given as what json.loads makes of it:
\*   invalid json string
\*   [1]
\*   {}
\*   {"target_sr": "abc"}
\*   {"language_hint": "fr", "enable_separation": false, "diarize": true,
\*    "model_size": "tiny", "target_sr": 8000, "beam": 5}
ConfigStrings ==
    { JsonText("invalid", EmptyObject),
      JsonText("array", EmptyObject),
      JsonText("object", EmptyObject),
      JsonText("object", "target_sr" :> JStr("abc")),
      JsonText("object", ("language_hint" :> JStr("fr"))
                         @@ ("enable_separation" :> JBool(FALSE))
                         @@ ("diarize" :> JBool(TRUE))
                         @@ ("model_size" :> JStr("tiny"))
                         @@ ("target_sr" :> JInt(8000))
                         @@ ("beam" :> JInt(5))) }

NoConfigString == JsonText("none", EmptyObject)

\* messages of the exceptions the stages raise
ErrMsgs == {"stage failed"}

\* what transcriber.transcribe returns: the text and the segment dicts,
\* which carry more keys than start, end and text; times are in hundredths
\* of a second.  The second result has two segments that overlap.
WhisperResults ==
    { [text |-> "hello world",
       segments |-> << [id |-> 0, start |-> 0, end |-> 500,
                        text |-> "hello world"] >>],
      [text |-> "first part second part",
       segments |-> << [id |-> 0, start |-> 0, end |-> 250,
                        text |-> "first part"],
                       [id |-> 1, start |-> 240, end |-> 500,
                        text |-> "second part"] >>] }

\* the transcriber's text
Texts == {w.text : w \in WhisperResults}

NoPath == [kind |-> "none", uuid |-> 0, ext |-> ""]
Absent == "<absent>"
NoConfig == [language_hint |-> "", enable_separation |-> FALSE,
             diarize |-> FALSE, model_size |-> "", target_sr |-> 0]
NoContent == [size |-> 0, decodable |-> FALSE, read |-> FALSE]
NoResult == [kind |-> "none", value |-> ""]
NoResponse == [status |-> 0, request_id |-> Absent, error |-> Absent,
               detail |-> Absent, text |-> Absent]

\* a float that is the quotient of two integers
Quotient(a, b) == [num |-> a, den |-> b]

NoProbe == [duration_sec |-> Quotient(0, 1), sample_rate |-> 0]
NoTimingInfo == [load |-> 0, separation |-> 0, transcription |-> 0, total |-> 0]
NoTaskResponse ==
    [request_id |-> Absent, duration_sec |-> Quotient(0, 1),
     sample_rate |-> 0, timings_ms |-> NoTimingInfo,
     pipeline |-> [separation |-> [enables |-> FALSE, method |-> ""],
                   transcription |-> [model |-> ""]],
     text |-> Absent, language |-> Absent, segments |-> <<>>]

\* How long the stages of one pipeline run take, in milliseconds of the
\* clock: the statements before the Separator is called, the Separator,
\* whisper.load_model and transcriber.transcribe
Durations == [setup |-> 10, separation |-> 400, load |-> 300, inference |-> 200]

\* settings.temp_dir / "vocals.wav"
VocalsFp == [kind |-> "vocals", uuid |-> 0, ext |-> "wav"]

\* settings.temp_dir / f"{request_id}_{uuid.uuid4()}.{file_extension}"
UploadFp(u, ext) == [kind |-> "upload", uuid |-> u, ext |-> ext]

\* getattr(request.state, "request_id", "unknown"): nothing sets
\* request.state.request_id, so every request carries the fallback
RequestId(r) == "unknown"

\* ------------------------------------------------------------- the state
VARIABLES
    pc,          \* position of each request's handler coroutine
    loop,        \* request whose handler holds the event-loop thread (0: none)
    config_json, \* the config form field of each request
    config,      \* transcription_config of each request
    file_extension, \* validated extension of each request's upload
    content,     \* what file.read() returned for each request
    audio_fp,    \* upload path of each request
    nextUuid,    \* uuid4 values handed out so far
    fs,          \* files present in settings.temp_dir
    taskQueue,   \* tasks given to apply_async and not yet taken by a worker
    slot,        \* task each worker process is running (0: idle)
    wpc,         \* position of each worker inside transcribe_audio
    vocals_fp,   \* local vocals_fp of each request's task
    sepCalls,    \* number of separate_vocals calls made for each request
    sepResult,   \* "none" | "ok" | "failed"
    sepPath,     \* path separate_vocals wrote for each request
    transInput,  \* path the transcriber was run on
    transResult, \* "none" | "ok" | "failed"
    transOut,    \* text (ok) or exception message (failed) of the transcriber
    transSegments, \* segment dicts the transcriber returned
    cuda_available, \* torch.cuda.is_available() on this machine
    device,      \* device resolved at the start of each request's task
    sepDevice,   \* device the Separator was created with
    transModel,  \* model spec the Transcriber was loaded with
    transDevice, \* device the Transcriber was loaded on
    probe,       \* audio_duration and sample_rate the handler probed
    now,         \* what time.time() returns, in milliseconds
    start_time,  \* local start_time of each request's task
    sep_stime,   \* local sep_stime of each request's task
    sep_time,    \* local sep_time of each request's task
    transcription_stime, \* local transcription_stime of each request's task
    load_time,   \* load_time the transcriber returned to each request's task
    transcription_time,  \* local transcription_time of each request's task
    transcription_etime, \* time at which each request's transcriber returned
    task_response, \* TranscriptionResponse each request's task built
    payload,     \* body of each request's 200 response
    result,      \* what the AsyncResult of each request's task holds
    lost,        \* the task's worker process died while running it
    response,    \* HTTP response of each request
    phase        \* "serving" | "closing" | "closed"

vars == <<pc, loop, config_json, config, file_extension, content, audio_fp, nextUuid, fs, taskQueue, slot, wpc,
          vocals_fp, sepCalls, sepResult, sepPath, transInput, transResult,
          transOut, transSegments, cuda_available, device, sepDevice,
          transModel, transDevice, probe, task_response, payload,
          result, lost, response, phase, now, start_time, sep_stime,
          sep_time, transcription_stime, load_time, transcription_time,
          transcription_etime>>

handlerVars == <<pc, loop, config_json, config, file_extension, content,
                 audio_fp, nextUuid, response, probe, payload>>
sepVars == <<vocals_fp, sepCalls, sepResult, sepPath, sepDevice>>
transVars == <<transInput, transResult, transOut, transSegments, transModel,
               transDevice>>
timeVars == <<now, start_time, sep_stime, sep_time, transcription_stime,
              load_time, transcription_time, transcription_etime>>
taskVars == <<sepVars, transVars, timeVars, cuda_available, device,
              task_response>>
poolVars == <<taskQueue, slot, wpc, result, lost, phase>>

Init ==
    /\ pc = [r \in Reqs |-> "new"]
    /\ loop = 0
    /\ config_json = [r \in Reqs |-> NoConfigString]
    /\ config = [r \in Reqs |-> NoConfig]
    /\ file_extension = [r \in Reqs |-> ""]
    /\ content = [r \in Reqs |-> NoContent]
    /\ audio_fp = [r \in Reqs |-> NoPath]
    /\ nextUuid = 1
    /\ fs = {}
    /\ taskQueue = <<>>
    /\ slot = [w \in Workers |-> 0]
    /\ wpc = [w \in Workers |-> "idle"]
    /\ vocals_fp = [r \in Reqs |-> NoPath]
    /\ sepCalls = [r \in Reqs |-> 0]
    /\ sepResult = [r \in Reqs |-> "none"]
    /\ sepPath = [r \in Reqs |-> NoPath]
    /\ transInput = [r \in Reqs |-> NoPath]
    /\ transResult = [r \in Reqs |-> "none"]
    /\ transOut = [r \in Reqs |-> ""]
    /\ transSegments = [r \in Reqs |-> <<>>]
    /\ cuda_available \in BOOLEAN
    /\ device = [r \in Reqs |-> ""]
    /\ sepDevice = [r \in Reqs |-> ""]
    /\ transModel = [r \in Reqs |-> ""]
    /\ transDevice = [r \in Reqs |-> ""]
    /\ probe = [r \in Reqs |-> NoProbe]
    /\ task_response = [r \in Reqs |-> NoTaskResponse]
    /\ payload = [r \in Reqs |-> NoTaskResponse]
    /\ result = [r \in Reqs |-> NoResult]
    /\ lost = [r \in Reqs |-> FALSE]
    /\ response = [r \in Reqs |-> NoResponse]
    /\ phase = "serving"
    /\ now = 0
    /\ start_time = [r \in Reqs |-> 0]
    /\ sep_stime = [r \in Reqs |-> 0]
    /\ sep_time = [r \in Reqs |-> 0]
    /\ transcription_stime = [r \in Reqs |-> 0]
    /\ load_time = [r \in Reqs |-> 0]
    /\ transcription_time = [r \in Reqs |-> 0]
    /\ transcription_etime = [r \in Reqs |-> 0]

\* ------------------------------------------------- validation and parsing
Returned(v) == [ok |-> TRUE, value |-> v, exc |-> NoResponse]

\* raise HTTPException(status_code, detail={...}); FastAPI answers it with
\* the status and the detail dict, which carries exactly the keys given
HTTPException(status_code, request_id, error, detail) ==
    [status |-> status_code, request_id |-> request_id, error |-> error,
     detail |-> detail, text |-> Absent]

Raised(v, e) == [ok |-> FALSE, value |-> v, exc |-> e]

\* TranscriptionConfig field defaults
DefaultConfig ==
    [language_hint |-> "en", enable_separation |-> TRUE, diarize |-> FALSE,
     model_size |-> "small", target_sr |-> 16000]

\* the fields of TranscriptionConfig and the JSON type each accepts
ConfigFields ==
    {"language_hint", "enable_separation", "diarize", "model_size",
     "target_sr"}

\* None, the value of an Optional field that was given as null
None == "<None>"

FieldTypes(f) ==
    CASE f = "language_hint"     -> {"str", "null"}
      [] f = "enable_separation" -> {"bool"}
      [] f = "diarize"           -> {"bool"}
      [] f = "model_size"        -> {"str"}
      [] f = "target_sr"         -> {"int"}

\* the Python value of a validated JSON value
FieldValue(v) ==
    CASE v.t = "str"  -> v.s
      [] v.t = "int"  -> v.n
      [] v.t = "bool" -> v.b
      [] v.t = "null" -> None

\* from_dict that never reads the diarize key
from_dict_DropsDiarize(json_dict) ==
    IF \E f \in ConfigFields \cap DOMAIN json_dict :
            json_dict[f].t \notin FieldTypes(f)
    THEN Raised(NoConfig, "ValidationError")
    ELSE Returned([f \in ConfigFields |->
                      IF f \in DOMAIN json_dict /\ f # "diarize"
                      THEN FieldValue(json_dict[f])
                      ELSE DefaultConfig[f]])

\* TranscriptionConfig.from_dict, cls(**json_dict): a key that is a field
\* is validated against the field's type, a field that is no key takes its
\* default, a key that is no field is ignored.  (The values that are tried
\* are of the field's type or plainly not convertible to it.)
from_dict(json_dict) ==
    IF \E f \in ConfigFields \cap DOMAIN json_dict :
            json_dict[f].t \notin FieldTypes(f)
    THEN Raised(NoConfig, "ValidationError")
    ELSE Returned([f \in ConfigFields |->
                      IF f \in DOMAIN json_dict
                      THEN FieldValue(json_dict[f])
                      ELSE DefaultConfig[f]])

\* the JSON value a field is serialised to
FieldJson(f, v) ==
    CASE f \in {"enable_separation", "diarize"} -> JBool(v)
      [] f = "target_sr" -> JInt(v)
      [] f = "language_hint" -> IF v = None THEN JNull ELSE JStr(v)
      [] OTHER -> JStr(v)

\* BaseModel.model_dump of a TranscriptionConfig: all five fields
model_dump(c) == [f \in ConfigFields |-> FieldJson(f, c[f])]

\* an exception that is no HTTPException and that nothing catches
Unhandled(msg) ==
    [status |-> 0, request_id |-> Absent, error |-> "unhandled",
     detail |-> msg, text |-> Absent]

\* from_json_string with the except clause catching every exception
from_json_string_CatchAll(json_string) ==
    IF json_string.json = "object" /\ from_dict(json_string.members).ok
    THEN Returned(from_dict(json_string.members).value)
    ELSE Raised(NoConfig,
                HTTPException(400, Absent, "invalid_config",
                              "Invalid JSON configuration"))

\* TranscriptionConfig.from_json_string: json.loads raises JSONDecodeError
\* and the model raises ValidationError, a ValueError; both are caught and
\* become the 400.  cls(**x) on a JSON value that is not an object raises
\* TypeError, which the except clause does not name.
from_json_string(json_string) ==
    CASE json_string.json = "invalid" ->
            Raised(NoConfig,
                   HTTPException(400, Absent, "invalid_config",
                                 "Invalid JSON configuration"))
      [] json_string.json = "object" ->
            IF from_dict(json_string.members).ok
            THEN Returned(from_dict(json_string.members).value)
            ELSE Raised(NoConfig,
                        HTTPException(400, Absent, "invalid_config",
                                      "Invalid JSON configuration"))
      [] OTHER ->
            Raised(NoConfig,
                   Unhandled("argument after ** must be a mapping"))

validate_file_name_and_ext(filename) ==
    IF filename = ""
    THEN Raised("", HTTPException(400, Absent, "invalid_file",
                                  "No filename provided"))
    ELSE IF FileExtension(filename) \notin supported_formats
         THEN Raised("", HTTPException(400, Absent, "invalid_format",
                                       "Unsupported format"))
         ELSE Returned(FileExtension(filename))

\* validate_file_size with the comparison off by one
validate_file_size_GE(c) ==
    IF c.size >= max_size_bytes
    THEN Raised(c.size, HTTPException(413, Absent, "file_too_large",
                                      "File size exceeds limit"))
    ELSE Returned(c.size)

validate_file_size(c) ==
    IF c.size > max_size_bytes
    THEN Raised(c.size, HTTPException(413, Absent, "file_too_large",
                                      "File size exceeds limit"))
    ELSE Returned(c.size)

\* get_audio_duration_and_sample_rate without its except clause
get_audio_duration_and_sample_rate_NoCatch(c) ==
    IF c.decodable
    THEN Returned([duration_sec |-> Quotient(AudioLengthMs(c.size), 1000),
                   sample_rate |-> AudioFrameRate(c.size)])
    ELSE Raised(0, Unhandled("CouldntDecodeError"))

\* duration_sec = len(audio) / 1000.0, sample_rate = audio.frame_rate
get_audio_duration_and_sample_rate(c) ==
    IF c.decodable
    THEN Returned([duration_sec |-> Quotient(AudioLengthMs(c.size), 1000),
                   sample_rate |-> AudioFrameRate(c.size)])
    ELSE Raised(0, HTTPException(422, Absent, "Unable to decode",
                                 "CouldntDecodeError"))

\* app.py global_exception_handler: what the caller gets when the handler
\* lets an exception other than HTTPException escape
global_exception_handler(request_id, msg) ==
    [status |-> 500, request_id |-> request_id,
     error |-> "Internal server error",
     detail |-> IF debug THEN msg ELSE "An unexpected error occurred",
     text |-> Absent]

\* what the caller gets for an exception that ends the handler
Answer(request_id, exc) ==
    IF exc.status = 0
    THEN global_exception_handler(request_id, exc.detail)
    ELSE exc

\* The 200 response built from the TranscriptionResponse the task returned
SuccessResponse(request_id, text) ==
    [status |-> 200, request_id |-> request_id, error |-> Absent,
     detail |-> Absent, text |-> text]

\* Path.unlink() without missing_ok raises on a file that is not there
FileNotFoundMsg == "No such file or directory"

\* ------------------------------------------------------ the event loop
\* The handler is a coroutine of the one event loop: it runs until it
\* awaits.  Its only await is file.read(); async_response.get() is a
\* blocking call, so from line 113 to its end the handler keeps the thread.
LoopFree == loop = 0

\* transcribe, lines 103-112: parse the config, validate the file name,
\* then suspend in await file.read()
Arrive(r) ==
    /\ pc[r] = "new"
    /\ phase = "serving"
    /\ LoopFree
    /\ \A q \in Reqs : q < r => pc[q] # "new"
    /\ \E json_string \in ConfigStrings, filename \in FileNames :
        LET c == from_json_string(json_string)
            e == validate_file_name_and_ext(filename)
        IN  /\ config_json' = [config_json EXCEPT ![r] = json_string]
            /\ IF ~c.ok
               THEN /\ response' = [response EXCEPT
                           ![r] = Answer(RequestId(r), c.exc)]
                    /\ pc' = [pc EXCEPT ![r] = "done"]
                    /\ UNCHANGED <<config, file_extension>>
               ELSE IF ~e.ok
               THEN /\ response' = [response EXCEPT
                           ![r] = Answer(RequestId(r), e.exc)]
                    /\ pc' = [pc EXCEPT ![r] = "done"]
                    /\ config' = [config EXCEPT ![r] = c.value]
                    /\ UNCHANGED file_extension
               ELSE /\ pc' = [pc EXCEPT ![r] = "reading"]
                    /\ config' = [config EXCEPT ![r] = c.value]
                    /\ file_extension' = [file_extension EXCEPT
                           ![r] = e.value]
                    /\ UNCHANGED response
    /\ UNCHANGED <<loop, content, audio_fp, nextUuid, fs, probe, payload>>
    /\ UNCHANGED taskVars
    /\ UNCHANGED poolVars

\* transcribe, lines 112-123: file.read() completes, the size is checked
\* and the upload is written to its scratch path
Save(r) ==
    /\ pc[r] = "reading"
    /\ LoopFree
    /\ \E c \in Contents :
        LET v == validate_file_size(c)
            p == UploadFp(nextUuid, file_extension[r])
        IN  IF ~v.ok
            THEN /\ content' = [content EXCEPT ![r] = c]
                 /\ response' = [response EXCEPT
                        ![r] = Answer(RequestId(r), v.exc)]
                 /\ pc' = [pc EXCEPT ![r] = "done"]
                 /\ UNCHANGED <<loop, audio_fp, nextUuid, fs>>
            ELSE /\ content' = [content EXCEPT ![r] = c]
                 /\ audio_fp' = [audio_fp EXCEPT ![r] = p]
                 /\ nextUuid' = nextUuid + 1
                 /\ fs' = fs \cup {p}
                 /\ pc' = [pc EXCEPT ![r] = "saved"]
                 /\ loop' = r
                 /\ UNCHANGED response
    /\ UNCHANGED <<config_json, config, file_extension, probe, payload>>
    /\ UNCHANGED taskVars
    /\ UNCHANGED poolVars

\* Probe with the task submitted before the file is probed
Probe_SubmitFirst(r) ==
    /\ pc[r] = "saved"
    /\ loop = r
    /\ LET v == get_audio_duration_and_sample_rate(content[r])
       IN  IF ~v.ok
           THEN /\ response' = [response EXCEPT
                       ![r] = Answer(RequestId(r), v.exc)]
                /\ pc' = [pc EXCEPT ![r] = "done"]
                /\ loop' = 0
                /\ taskQueue' = Append(taskQueue, r)
                /\ UNCHANGED probe
           ELSE /\ pc' = [pc EXCEPT ![r] = "probed"]
                /\ probe' = [probe EXCEPT ![r] = v.value]
                /\ UNCHANGED <<response, loop, taskQueue>>
    /\ UNCHANGED <<config_json, config, file_extension, content, audio_fp,
                   nextUuid, fs, payload>>
    /\ UNCHANGED taskVars
    /\ UNCHANGED <<phase, slot, wpc, result, lost>>

\* transcribe, lines 124-126: probe duration and sample rate; the call is
\* outside the try statement, so its HTTPException ends the handler at once
Probe(r) ==
    /\ pc[r] = "saved"
    /\ loop = r
    /\ LET v == get_audio_duration_and_sample_rate(content[r])
       IN  IF ~v.ok
           THEN /\ response' = [response EXCEPT
                       ![r] = Answer(RequestId(r), v.exc)]
                /\ pc' = [pc EXCEPT ![r] = "done"]
                /\ loop' = 0
                /\ UNCHANGED probe
           ELSE /\ pc' = [pc EXCEPT ![r] = "probed"]
                /\ probe' = [probe EXCEPT ![r] = v.value]
                /\ UNCHANGED <<response, loop>>
    /\ UNCHANGED <<config_json, config, file_extension, content, audio_fp,
                   nextUuid, fs, payload>>
    /\ UNCHANGED taskVars
    /\ UNCHANGED poolVars

\* Pool.apply_async raises ValueError unless the pool is running
PoolNotRunningMsg == "Pool not running"

\* transcribe, lines 128-135: pool.apply_async puts the task on the pool's
\* task queue and returns; the handler then blocks in async_response.get().
\* On a pool that was closed apply_async raises inside the try statement.
Submit(r) ==
    /\ pc[r] = "probed"
    /\ loop = r
    /\ IF phase = "serving"
       THEN /\ taskQueue' = Append(taskQueue, r)
            /\ UNCHANGED result
       ELSE /\ result' = [result EXCEPT
                   ![r] = [kind |-> "error", value |-> PoolNotRunningMsg]]
            /\ UNCHANGED taskQueue
    /\ pc' = [pc EXCEPT ![r] = "waiting"]
    /\ UNCHANGED <<loop, config_json, config, file_extension, content,
                   audio_fp, nextUuid, probe, payload,
                   response, fs, slot, wpc, lost, phase>>
    /\ UNCHANGED taskVars

\* transcribe, lines 136-154, with the exception handling left out: any
\* exception of the task escapes the handler to the global exception handler
TaskOutcomeResponse_NoExcept(request_id, res) ==
    IF res.kind = "ok"
    THEN SuccessResponse(request_id, res.value)
    ELSE global_exception_handler(request_id, res.value)

\* transcribe, lines 136-154: async_response.get() returns the task's
\* response or re-raises the task's exception, which except Exception
\* turns into the 500 processing_failed HTTPException
TaskOutcomeResponse(request_id, res) ==
    IF res.kind = "ok"
    THEN SuccessResponse(request_id, res.value)
    ELSE HTTPException(500, request_id, "processing_failed", res.value)

\* transcribe, lines 136-156: get() unblocks once the AsyncResult is set;
\* the finally clause then unlinks the upload, and an exception of
\* audio_fp.unlink() replaces the return value or the HTTPException
Get(r) ==
    /\ pc[r] = "waiting"
    /\ loop = r
    /\ result[r].kind # "none"
    /\ IF audio_fp[r] \in fs
       THEN /\ fs' = fs \ {audio_fp[r]}
            /\ response' = [response EXCEPT
                   ![r] = TaskOutcomeResponse(RequestId(r), result[r])]
            /\ payload' = [payload EXCEPT
                   ![r] = IF result[r].kind = "ok"
                          THEN task_response[r]
                          ELSE NoTaskResponse]
       ELSE /\ fs' = fs
            /\ response' = [response EXCEPT
                   ![r] = global_exception_handler(RequestId(r),
                                                   FileNotFoundMsg)]
            /\ UNCHANGED payload
    /\ pc' = [pc EXCEPT ![r] = "done"]
    /\ loop' = 0
    /\ UNCHANGED <<config_json, config, file_extension, content, audio_fp,
                   nextUuid, probe>>
    /\ UNCHANGED taskVars
    /\ UNCHANGED poolVars

\* ------------------------------------------------------ the worker pool
Busy == {w \in Workers : slot[w] # 0}

\* device = "cuda" if torch.cuda.is_available() else "cpu"
ResolvedDevice == IF cuda_available THEN "cuda" ELSE "cpu"

\* A worker that starts the task at the head of the queue but leaves it on
\* the queue
PickTask_NoDequeue(w) ==
    /\ slot[w] = 0
    /\ taskQueue # <<>>
    /\ slot' = [slot EXCEPT ![w] = Head(taskQueue)]
    /\ wpc' = [wpc EXCEPT ![w] = "separate"]
    /\ device' = [device EXCEPT ![Head(taskQueue)] = ResolvedDevice]
    /\ start_time' = [start_time EXCEPT ![Head(taskQueue)] = now]
    /\ now' = now + Durations.setup
    /\ sep_stime' = [sep_stime EXCEPT ![Head(taskQueue)] = now']
    /\ UNCHANGED <<sep_time, transcription_stime, load_time,
                   transcription_time, transcription_etime>>
    /\ UNCHANGED <<phase, taskQueue, result, lost, fs>>
    /\ UNCHANGED handlerVars
    /\ UNCHANGED <<sepVars, transVars, cuda_available, task_response>>

\* multiprocessing.Pool(processes=settings.background_workers): an idle
\* worker process takes the oldest task off the task queue and starts
\* transcribe_audio (lines 32-39), which reads the clock into start_time,
\* resolves the device and reads the clock into sep_stime
PickTask(w) ==
    /\ slot[w] = 0
    /\ taskQueue # <<>>
    /\ slot' = [slot EXCEPT ![w] = Head(taskQueue)]
    /\ taskQueue' = Tail(taskQueue)
    /\ wpc' = [wpc EXCEPT ![w] = "separate"]
    /\ device' = [device EXCEPT ![Head(taskQueue)] = ResolvedDevice]
    /\ start_time' = [start_time EXCEPT ![Head(taskQueue)] = now]
    /\ now' = now + Durations.setup
    /\ sep_stime' = [sep_stime EXCEPT ![Head(taskQueue)] = now']
    /\ UNCHANGED <<sep_time, transcription_stime, load_time,
                   transcription_time, transcription_etime>>
    /\ UNCHANGED <<phase, result, lost, fs>>
    /\ UNCHANGED handlerVars
    /\ UNCHANGED <<sepVars, transVars, cuda_available, task_response>>

\* transcribe_audio, lines 41-54: separate_vocals is called whatever the
\* config says, with the resolved device; it writes
\* settings.temp_dir / "vocals.wav" and returns that path, or raises, and
\* then the upload path stands in for the vocals; sep_time is the clock's
\* advance since sep_stime, and the clock is read again into
\* transcription_stime
Separate(w) ==
    /\ wpc[w] = "separate"
    /\ LET r == slot[w]
       IN  /\ sepCalls' = [sepCalls EXCEPT ![r] = @ + 1]
           /\ sepDevice' = [sepDevice EXCEPT ![r] = device[r]]
           /\ \E raises \in BOOLEAN :
                /\ audio_fp[r] \notin fs => raises
                /\ IF raises
                   THEN /\ vocals_fp' = [vocals_fp EXCEPT ![r] = audio_fp[r]]
                        /\ sepResult' = [sepResult EXCEPT ![r] = "failed"]
                        /\ UNCHANGED <<fs, sepPath>>
                   ELSE /\ vocals_fp' = [vocals_fp EXCEPT ![r] = VocalsFp]
                        /\ sepResult' = [sepResult EXCEPT ![r] = "ok"]
                        /\ sepPath' = [sepPath EXCEPT ![r] = VocalsFp]
                        /\ fs' = fs \cup {VocalsFp}
    /\ now' = now + Durations.separation
    /\ sep_time' = [sep_time EXCEPT ![slot[w]] = now' - sep_stime[slot[w]]]
    /\ transcription_stime' = [transcription_stime EXCEPT ![slot[w]] = now']
    /\ UNCHANGED <<start_time, sep_stime, load_time, transcription_time,
                   transcription_etime>>
    /\ wpc' = [wpc EXCEPT ![w] = "transcribe"]
    /\ UNCHANGED <<transVars, cuda_available, device, task_response>>
    /\ UNCHANGED <<phase, taskQueue, slot, result, lost>>
    /\ UNCHANGED handlerVars

\* the text an f-string gives for a config value
FormatValue(v) == IF v = None THEN "None" ELSE v

\* f"{transcription_config.model_size}.{transcription_config.language_hint}"
ModelSpec(c) == FormatValue(c.model_size) \o "." \o FormatValue(c.language_hint)

\* TranscriptionService.transcribe_audio(..., device: str = "cuda"): the
\* call in routers.py passes no device, so the default is what
\* whisper.load_model gets
TranscriberDevice(resolved) == "cuda"

\* torch cannot load a model on a CUDA device that is not there
CudaUnavailableMsg == "torch.cuda.is_available() is False"

\* transcribe_audio, lines 55-60, and TranscriptionService.transcribe_audio:
\* the model is loaded and run on vocals_fp; an exception ends the task and
\* becomes the AsyncResult's value.  load_time is the clock's advance over
\* whisper.load_model, measured inside the call, and transcription_time is
\* the clock's advance over the whole call, the load included
Transcribe(w) ==
    /\ wpc[w] = "transcribe"
    /\ LET r == slot[w]
           d == TranscriberDevice(device[r])
       IN  /\ transInput' = [transInput EXCEPT ![r] = vocals_fp[r]]
           /\ transModel' = [transModel EXCEPT ![r] = ModelSpec(config[r])]
           /\ transDevice' = [transDevice EXCEPT ![r] = d]
           /\ \E raises \in BOOLEAN, m \in ErrMsgs, out \in WhisperResults :
                LET msg == IF d = "cuda" /\ ~cuda_available
                           THEN CudaUnavailableMsg ELSE m
                IN
                /\ vocals_fp[r] \notin fs => raises
                /\ (d = "cuda" /\ ~cuda_available) => raises
                /\ IF raises
                   THEN /\ transResult' = [transResult EXCEPT ![r] = "failed"]
                        /\ transOut' = [transOut EXCEPT ![r] = msg]
                        /\ result' = [result EXCEPT
                               ![r] = [kind |-> "error", value |-> msg]]
                        /\ slot' = [slot EXCEPT ![w] = 0]
                        /\ wpc' = [wpc EXCEPT ![w] = "idle"]
                        /\ now' = now + Durations.load
                        /\ UNCHANGED <<transSegments, load_time,
                                       transcription_time,
                                       transcription_etime>>
                   ELSE /\ transResult' = [transResult EXCEPT ![r] = "ok"]
                        /\ transOut' = [transOut EXCEPT ![r] = out.text]
                        /\ transSegments' = [transSegments EXCEPT
                               ![r] = out.segments]
                        /\ wpc' = [wpc EXCEPT ![w] = "finish"]
                        /\ load_time' = [load_time EXCEPT
                               ![r] = Durations.load]
                        /\ now' = now + Durations.load + Durations.inference
                        /\ transcription_time' = [transcription_time EXCEPT
                               ![r] = now' - transcription_stime[r]]
                        /\ transcription_etime' =
                               [transcription_etime EXCEPT ![r] = now']
                        /\ UNCHANGED <<result, slot>>
    /\ UNCHANGED <<start_time, sep_stime, sep_time, transcription_stime>>
    /\ UNCHANGED <<sepVars, cuda_available, device, task_response>>
    /\ UNCHANGED <<phase, taskQueue, lost, fs>>
    /\ UNCHANGED handlerVars

\* get_segments_from_whisper_results that returns the segments last first
get_segments_from_whisper_results_Reversed(segments) ==
    [i \in 1..Len(segments) |->
        [start |-> segments[Len(segments) + 1 - i].start,
         end |-> segments[Len(segments) + 1 - i].end,
         text |-> segments[Len(segments) + 1 - i].text]]

\* TranscriptionSegment.get_segments_from_whisper_results: one
\* TranscriptionSegment per segment dict, appended in the dicts' order
get_segments_from_whisper_results(segments) ==
    [i \in 1..Len(segments) |->
        [start |-> segments[i].start,
         end |-> segments[i].end,
         text |-> segments[i].text]]

\* int(x) of a time span x that the clock measured as ms milliseconds and
\* that the code holds in seconds: the whole seconds
IntSeconds(ms) == ms \div 1000

\* int(x * 1000) of a number of seconds x: the milliseconds
IntMillis(seconds_in_ms) == seconds_in_ms

\* transcribe_audio, lines 62-68: total_time is the time since start_time
\* cut down to whole seconds, and each TimingInfo field is int(x * 1000)
\* of its local
TimingInfo(load, separation, transcription, elapsed) ==
    LET total_time == IntSeconds(elapsed)
    IN  [load |-> IntMillis(load),
         separation |-> IntMillis(separation),
         transcription |-> IntMillis(transcription),
         total |-> total_time * 1000]

\* transcribe_audio, lines 69-85: the TranscriptionResponse
TranscriptionResponse(request_id, duration, sample_rate, c, text, segments, timing_info) ==
    [request_id |-> request_id,
     duration_sec |-> duration,
     sample_rate |-> sample_rate,
     timings_ms |-> timing_info,
     pipeline |-> [separation |-> [enables |-> c.enable_separation,
                                   method |-> "demucs"],
                   transcription |-> [model |-> c.model_size]],
     text |-> text,
     language |-> c.language_hint,
     segments |-> segments]

\* transcribe_audio, lines 61-94: the response is built, vocals_fp is
\* unlinked and the response is returned through the AsyncResult
Finish(w) ==
    /\ wpc[w] = "finish"
    /\ LET r == slot[w]
       IN  /\ task_response' = [task_response EXCEPT
                  ![r] = TranscriptionResponse(
                             RequestId(r), probe[r].duration_sec,
                             probe[r].sample_rate, config[r], transOut[r],
                             get_segments_from_whisper_results(
                                 transSegments[r]),
                             TimingInfo(load_time[r], sep_time[r],
                                        transcription_time[r],
                                        now - start_time[r]))]
           /\ IF vocals_fp[r] \in fs
              THEN /\ fs' = fs \ {vocals_fp[r]}
                   /\ result' = [result EXCEPT
                          ![r] = [kind |-> "ok", value |-> transOut[r]]]
              ELSE /\ fs' = fs
                   /\ result' = [result EXCEPT
                          ![r] = [kind |-> "error",
                                  value |-> FileNotFoundMsg]]
    /\ slot' = [slot EXCEPT ![w] = 0]
    /\ wpc' = [wpc EXCEPT ![w] = "idle"]
    /\ UNCHANGED <<phase, taskQueue, lost>>
    /\ UNCHANGED <<sepVars, transVars, timeVars, cuda_available, device>>
    /\ UNCHANGED handlerVars

\* A worker process dies while running a task (killed, out of memory, a
\* crash in native code).  multiprocessing.Pool replaces the process, so
\* the slot is free again, but the task is gone and its AsyncResult is
\* never set.
Crash(w) ==
    /\ slot[w] # 0
    /\ lost' = [lost EXCEPT ![slot[w]] = TRUE]
    /\ slot' = [slot EXCEPT ![w] = 0]
    /\ wpc' = [wpc EXCEPT ![w] = "idle"]
    /\ UNCHANGED <<phase, taskQueue, result, fs>>
    /\ UNCHANGED taskVars
    /\ UNCHANGED handlerVars

\* ------------------------------------------------------ the lifespan
\* pool.close() run while requests are still being handled
PoolClose_NoWait ==
    /\ phase = "serving"
    /\ LoopFree
    /\ phase' = "closing"
    /\ UNCHANGED <<taskQueue, slot, wpc, result, lost, fs>>
    /\ UNCHANGED handlerVars
    /\ UNCHANGED taskVars

\* lifespan, lines 30-32 (yield, pool.close()): the server is told to stop, accepts no further
\* request and waits for the requests it has; then the code after the
\* yield runs and pool.close() stops the pool from taking tasks
PoolClose ==
    /\ phase = "serving"
    /\ LoopFree
    /\ \A r \in Reqs : pc[r] \in {"new", "done"}
    /\ phase' = "closing"
    /\ UNCHANGED <<taskQueue, slot, wpc, result, lost, fs>>
    /\ UNCHANGED handlerVars
    /\ UNCHANGED taskVars

\* lifespan, line 33: pool.join() returns when the workers have run the
\* tasks that were queued and have exited
PoolJoin ==
    /\ phase = "closing"
    /\ taskQueue = <<>>
    /\ Busy = {}
    /\ phase' = "closed"
    /\ UNCHANGED <<taskQueue, slot, wpc, result, lost, fs>>
    /\ UNCHANGED handlerVars
    /\ UNCHANGED taskVars

\* ------------------------------------------------------ specifications
Next ==
    \/ \E r \in Reqs : Arrive(r)
    \/ \E r \in Reqs : Save(r)
    \/ \E r \in Reqs : Probe(r)
    \/ \E r \in Reqs : Submit(r)
    \/ \E r \in Reqs : Get(r)
    \/ \E w \in Workers : PickTask(w)
    \/ \E w \in Workers : Separate(w)
    \/ \E w \in Workers : Transcribe(w)
    \/ \E w \in Workers : Finish(w)
    \/ \E w \in Workers : Crash(w)
    \/ PoolClose
    \/ PoolJoin

Spec == Init /\ [][Next]_vars

\* What the scheduling guarantees: the event loop resumes a handler that
\* can go on, and an idle worker process takes a queued task.  Nothing
\* bounds how long a stage runs, and requests arrive as they please.
FairSpec ==
    /\ Spec
    /\ \A r \in Reqs : WF_vars(Save(r)) /\ WF_vars(Probe(r))
                       /\ WF_vars(Submit(r)) /\ WF_vars(Get(r))
    /\ \A w \in Workers : WF_vars(PickTask(w)) /\ WF_vars(Finish(w))

\* ------------------------------------------------------------ the claims
Done(r) == pc[r] = "done"

\* C1: when the Separator raises and the Transcriber then succeeds, the
\* Transcriber has run on the original upload path and the caller gets a
\* 200 response carrying the Transcriber's text.
C1_SeparationFailureDegrades ==
    \A r \in Reqs :
        (Done(r) /\ sepResult[r] = "failed" /\ transResult[r] = "ok") =>
            /\ transInput[r] = audio_fp[r]
            /\ response[r].status = 200
            /\ response[r].text = transOut[r]

\* C2: once a request has completed, whatever its outcome, neither its
\* upload file nor its separated-vocals file exists in the temp directory.
C2_NoTempFileAfterRequest ==
    \A r \in Reqs :
        Done(r) => (audio_fp[r] \notin fs /\ sepPath[r] \notin fs)

\* C3: when the Transcriber raises, the task produces no result, only the
\* error, and the caller gets HTTP 500 whose body carries the request's
\* correlation identifier, the category processing_failed and the message
\* of the Transcriber's exception unchanged.
C3_TranscriberFailureIs500 ==
    \A r \in Reqs :
        (Done(r) /\ transResult[r] = "failed") =>
            /\ result[r] = [kind |-> "error", value |-> transOut[r]]
            /\ response[r] = [status |-> 500,
                              request_id |-> RequestId(r),
                              error |-> "processing_failed",
                              detail |-> transOut[r],
                              text |-> Absent]

\* C3 witness: a request whose Transcriber raised has been answered.
C3_Witness ==
    \E r \in Reqs :
        /\ Done(r)
        /\ transResult[r] = "failed"
        /\ transOut[r] \in ErrMsgs
        /\ response[r].status = 500

\* C4: once a pipeline run that created an intermediate separated-audio
\* file has returned or raised, that file is no longer on disk.
C4_IntermediateReleased ==
    \A r \in Reqs :
        (sepResult[r] = "ok" /\ result[r].kind # "none") =>
            sepPath[r] \notin fs

\* C5: every request that wrote its upload to a scratch path has deleted
\* that file by the time the request ends, also when it ends early.
C5_UploadReleasedOnEveryPath ==
    \A r \in Reqs :
        (Done(r) /\ audio_fp[r] # NoPath) => audio_fp[r] \notin fs

\* C6: for a request whose config has enable_separation = false the
\* Separator is never invoked, no intermediate file is created and the
\* Transcriber runs on the original upload path.
C6_SeparatorOnlyWhenEnabled ==
    \A r \in Reqs :
        (pc[r] # "new" /\ config[r] # NoConfig
            /\ ~config[r].enable_separation) =>
            /\ sepCalls[r] = 0
            /\ sepPath[r] = NoPath
            /\ transInput[r] \in {NoPath, audio_fp[r]}

\* the scratch paths a request has been assigned
ScratchPaths(r) == {audio_fp[r], sepPath[r]} \ {NoPath}

\* C7: the scratch paths assigned to two distinct requests (upload and
\* intermediate separated audio) are pairwise different.
C7_ScratchPathsPairwiseDistinct ==
    \A r1, r2 \in Reqs :
        r1 # r2 => ScratchPaths(r1) \cap ScratchPaths(r2) = {}

\* a task that was submitted and has neither completed nor been lost
InPool(r) == pc[r] = "waiting" /\ result[r].kind = "none" /\ ~lost[r]
QueueCount(r) ==
    Cardinality({i \in 1..Len(taskQueue) : taskQueue[i] = r})
SlotCount(r) == Cardinality({w \in Workers : slot[w] = r})

C8_PoolState ==
    /\ Cardinality(Busy) <= PoolSize
    /\ \A r \in Reqs :
        /\ InPool(r) => QueueCount(r) + SlotCount(r) = 1
        /\ ~InPool(r) => QueueCount(r) + SlotCount(r) = 0
        /\ QueueCount(r) > 0 => response[r] = NoResponse

Accept(r) == Arrive(r) \/ Save(r)

\* C9: while one request's task occupies a slot and fewer than PoolSize
\* slots are busy, the accepting layer can still take the next step for
\* another request that has arrived or is about to.
C9_AcceptsWhileSlotBusy ==
    \A r1, r2 \in Reqs :
        (/\ r1 # r2
         /\ \E w \in Workers : slot[w] = r1
         /\ Cardinality(Busy) < PoolSize
         /\ pc[r2] \in {"new", "reading"}
         /\ \A q \in Reqs : q < r2 => pc[q] # "new") =>
            ENABLED Accept(r2)

\* C10: a task whose worker process crashed is reported to its submitter:
\* the submitter's wait ends.
C10_CrashReported ==
    \A r \in Reqs : lost[r] ~> Done(r)

\* the task of request r never was in the pool
NeverInPool(r) ==
    /\ QueueCount(r) = 0
    /\ SlotCount(r) = 0
    /\ sepCalls[r] = 0
    /\ result[r] = NoResult
    /\ ~lost[r]

\* a config form field from which a TranscriptionConfig can be built
ValidConfigString(j) ==
    /\ j.json = "object"
    /\ \A f \in ConfigFields \cap DOMAIN j.members :
          j.members[f].t \in FieldTypes(f)

C11_RejectedState ==
    \A r \in Reqs :
        (Done(r) /\ (response[r].status \in {400, 413, 422}
                        \/ ~ValidConfigString(config_json[r]))) =>
            /\ NeverInPool(r)
            /\ response[r].status \in {400, 413} => audio_fp[r] = NoPath

C11_RejectingStep ==
    \A r \in Reqs :
        (pc[r] # "done" /\ pc'[r] = "done"
            /\ response'[r].status \in {400, 413, 422}) =>
            UNCHANGED poolVars

\* C11: a request rejected for a missing filename, an unsupported
\* extension, an oversized payload, a malformed config or an undecodable
\* file never had a task in the pool, the rejecting step leaves the pool as
\* it was, and a 400 or 413 rejection has written no temp file.
C11_RejectionsNeverEnterPool ==
    []C11_RejectedState /\ [][C11_RejectingStep]_vars

\* C11 witness: a request whose upload was written and found undecodable
\* has been rejected.
C11_Witness ==
    \E r \in Reqs :
        /\ Done(r)
        /\ response[r].status = 422
        /\ audio_fp[r] # NoPath

\* C12: a payload of more than max_file_size_mb * 1024 * 1024 bytes is
\* rejected with 413 file_too_large whatever its content; a payload of at
\* most that size passes size validation, which returns its byte length.
C12_OversizeIs413 ==
    /\ \A r \in Reqs :
        (Done(r) /\ content[r].read) =>
            IF content[r].size > max_file_size_mb * 1024 * 1024
            THEN /\ response[r].status = 413
                 /\ response[r].error = "file_too_large"
                 /\ audio_fp[r] = NoPath
            ELSE /\ response[r].status # 413
                 /\ audio_fp[r] # NoPath
    /\ \A c \in Contents :
        c.size <= max_file_size_mb * 1024 * 1024 =>
            (validate_file_size(c).ok /\ validate_file_size(c).value = c.size)

\* C12 witness: one request was rejected as oversized and another, whose
\* payload has exactly the maximal size, passed size validation.
C12_Witness ==
    \E r1, r2 \in Reqs :
        /\ Done(r1) /\ content[r1].size > max_size_bytes
        /\ response[r1].status = 413
        /\ Done(r2) /\ content[r2].read /\ content[r2].size = max_size_bytes
        /\ audio_fp[r2] # NoPath

\* C13: a payload within the size limit (also an empty one) that cannot be
\* decoded as audio is rejected with 422, not with 400, 413 or 500.
C13_UndecodableIs422 ==
    \A r \in Reqs :
        (Done(r) /\ content[r].read
            /\ content[r].size <= max_size_bytes
            /\ ~content[r].decodable) =>
            /\ response[r].status = 422
            /\ response[r].error = "Unable to decode"

\* C13 witness: an upload of zero bytes has been answered.
C13_Witness ==
    \E r \in Reqs :
        /\ Done(r)
        /\ content[r].read
        /\ content[r].size = 0
        /\ response[r].status = 422

\* C14: every error response (400, 413, 422, 500) carries the request's
\* correlation identifier in its body.
C14_ErrorsCarryRequestId ==
    \A r \in Reqs :
        (Done(r) /\ response[r].status >= 400) =>
            response[r].request_id = RequestId(r)

\* C16: releasing the upload path when its file is already absent raises
\* no error: the handler's answer is the task's outcome and the
\* filesystem is unchanged.
C16_ReleaseIdempotent ==
    [][\A r \in Reqs :
          (pc[r] = "waiting" /\ pc'[r] = "done" /\ audio_fp[r] \notin fs) =>
              /\ fs' = fs
              /\ response'[r] = TaskOutcomeResponse(RequestId(r), result[r])
      ]_vars

\* C17: a config input that yields no valid TranscriptionConfig (not JSON,
\* JSON that is not an object, an object with a wrongly typed field) is
\* answered with 400 invalid_config; no config object is produced, no temp
\* file is written and no pool task is submitted.
C17_InvalidConfigIs400 ==
    \A r \in Reqs :
        (Done(r) /\ config_json[r] # NoConfigString
            /\ ~ValidConfigString(config_json[r])) =>
            /\ response[r].status = 400
            /\ response[r].error = "invalid_config"
            /\ config[r] = NoConfig
            /\ audio_fp[r] = NoPath
            /\ NeverInPool(r)

\* the documented defaults of the five fields
DocumentedDefaults ==
    [language_hint |-> "en", enable_separation |-> TRUE, diarize |-> FALSE,
     model_size |-> "small", target_sr |-> 16000]

C15_TranscriberModelAndDevice ==
    \A r \in Reqs :
        transResult[r] # "none" =>
            /\ transModel[r] =
                  config[r].model_size \o "." \o config[r].language_hint
            /\ transDevice[r] = device[r]
            /\ transDevice[r] = "cuda" => cuda_available

\* C20: in a successful response the text is the Transcriber's text, the
\* segments are the Transcriber's segments (start, end, text) in the order
\* they were emitted, none added, dropped, reordered or adjusted, and
\* duration_sec, sample_rate, language and request_id are the probed
\* values, the config's language hint and the request's identifier.
C20_ResponseCarriesTranscriberOutput ==
    \A r \in Reqs :
        (Done(r) /\ response[r].status = 200) =>
            /\ response[r].text = transOut[r]
            /\ payload[r].text = transOut[r]
            /\ Len(payload[r].segments) = Len(transSegments[r])
            /\ \A i \in 1..Len(transSegments[r]) :
                  /\ payload[r].segments[i].start = transSegments[r][i].start
                  /\ payload[r].segments[i].end = transSegments[r][i].end
                  /\ payload[r].segments[i].text = transSegments[r][i].text
            /\ payload[r].duration_sec.num = AudioLengthMs(content[r].size)
            /\ payload[r].duration_sec.den = 1000
            /\ payload[r].sample_rate = AudioFrameRate(content[r].size)
            /\ payload[r].language = config[r].language_hint
            /\ payload[r].request_id = RequestId(r)

\* C20 witness: a request was answered with 200 and two overlapping
\* segments.
C20_Witness ==
    \E r \in Reqs :
        /\ Done(r)
        /\ response[r].status = 200
        /\ Len(payload[r].segments) = 2
        /\ payload[r].segments[2].start < payload[r].segments[1].end

\* a request whose task was handed to the pool
Submitted(r) == pc[r] \in {"waiting", "done"} /\ probe[r] # NoProbe

C19_ClosedState ==
    /\ phase = "closed" =>
          /\ taskQueue = <<>>
          /\ Busy = {}
          /\ \A r \in Reqs :
                /\ pc[r] \in {"new", "done"}
                /\ Submitted(r) => result[r].kind # "none"
    /\ \A r \in Reqs : result[r].value # PoolNotRunningMsg

C19_Step ==
    /\ phase = "closed" => phase' = "closed"
    /\ phase' = "serving" => phase = "serving"
    /\ \A r \in Reqs :
          QueueCount(r) < QueueCount(r)' => phase = "serving"

\* C19: the pool exists from startup and is torn down once, at shutdown;
\* when it is gone every task that was submitted has run to a result or an
\* error, and no task is ever submitted to the closed pool.
C19_PoolLifecycle ==
    []C19_ClosedState /\ [][C19_Step]_vars

\* C19 witness: the pool was torn down after a task ran to its result.
C19_Witness ==
    /\ phase = "closed"
    /\ \E r \in Reqs : Submitted(r) /\ result[r].kind = "ok"

\* a timing record was produced for request r
TimingProduced(r) == task_response[r] # NoTaskResponse

\* C21: every timing record that is produced has load, separation,
\* transcription and total all non-negative, its total covers the time from
\* the start of the separation step to the end of the transcription step,
\* and its total is at least the sum of load, separation and transcription.
C21_TimingRecordConsistent ==
    \A r \in Reqs :
        TimingProduced(r) =>
            LET t == task_response[r].timings_ms
            IN  /\ t.load >= 0
                /\ t.separation >= 0
                /\ t.transcription >= 0
                /\ t.total >= 0
                /\ t.total >= transcription_etime[r] - sep_stime[r]
                /\ t.total >= t.load + t.separation + t.transcription

\* requests whose pipeline run a worker process is executing
Running == {slot[w] : w \in Busy}

\* The handler waits for its task's result on the event-loop thread
\* (async_response.get(), routers.py line 136), so the next request is
\* submitted only after the previous task has returned: no two pipeline
\* runs are ever in progress together, and no task waits in the queue
\* while another runs.
PipelineRunsNeverOverlap ==
    /\ Cardinality(Running) <= 1
    /\ Running # {} => taskQueue = <<>>
====
